---- MODULE Spec2Model ----
(***************************************************************************)
(* Model of the SpaceX ETL loader: the schema-to-DDL conversion and the    *)
(* upsert engine of loading/database_operations.py, and the per-dataset    *)
(* driver of main.py, against a PostgreSQL store reached through psycopg2. *)
(***************************************************************************)
EXTENDS Integers, Sequences, FiniteSets, TLC

VARIABLES
  schema_data,   \* the schema document handed to _convert_schema_to_sql_types
  shape,         \* how that document was built: [form, fields]
  sql_columns,   \* what _convert_schema_to_sql_types gave for schema_data
  tables,        \* the store: the set of tables, each [name, columns, rows]
  open_conns,    \* store connections opened and not yet closed
  last_call,     \* the latest DatabaseOperations call and how it ended
  dataset_idx,   \* main: index of the next dataset of the list
  main_pc,       \* main: "running", "done" or "aborted"
  attempted,     \* main: table names fetch_and_process_data was called with
  errors_logged  \* main: table names whose processing error was printed

vars == <<schema_data, shape, sql_columns, tables, open_conns, last_call,
          dataset_idx, main_pc, attempted, errors_logged>>

schemaVars == <<schema_data, shape, sql_columns>>
storeVars == <<tables, open_conns, last_call>>
mainVars == <<dataset_idx, main_pc, attempted, errors_logged>>

(***************************************************************************)
(* Bounds of the model.                                                    *)
(***************************************************************************)
MaxFields == 2   \* fields of an enumerated schema mapping
MaxBatch == 2    \* records of an enumerated data file
MaxRows == 3     \* rows a table may hold before further loads are cut off
MaxConns == 1    \* connections left open before further calls are cut off

(***************************************************************************)
(* JSON values as json.load returns them, tagged by their Python type.     *)
(***************************************************************************)
Str(s) == [k |-> "str", s |-> s]
Num(n) == [k |-> "num", n |-> n]
Bool(b) == [k |-> "bool", b |-> b]
Null == [k |-> "null"]
Arr(items) == [k |-> "arr", items |-> items]
Obj(items) == [k |-> "obj", items |-> items]
KV(key, val) == [key |-> key, val |-> val]

IsDict(v) == v.k = "obj"
IsList(v) == v.k = "arr"
IsStr(v) == v.k = "str"
IsNone(v) == v.k = "null"

Range(seq) == {seq[i] : i \in DOMAIN seq}
\* the element of a one-element set; {e(x) : x \in {v}} computes v once
TheOnly(S) == CHOOSE y \in S : TRUE
Keys(o) == {o.items[i].key : i \in DOMAIN o.items}
HasKey(o, key) == key \in Keys(o)
Lookup(o, key) == o.items[CHOOSE i \in DOMAIN o.items : o.items[i].key = key].val
\* dict.get(key, default)
DictGet(o, key, default) == IF HasKey(o, key) THEN Lookup(o, key) ELSE default

\* Python truthiness, as `not properties` and `if field_info.get(...)` use it
Truthy(v) ==
  CASE v.k = "obj" -> v.items # <<>>
    [] v.k = "arr" -> v.items # <<>>
    [] v.k = "str" -> v.s # ""
    [] v.k = "num" -> v.n # 0
    [] v.k = "bool" -> v.b
    [] OTHER -> FALSE

\* decimal text of the numbers the model uses
NumText(n) ==
  CASE n = 0 -> "0"
    [] n = 1 -> "1"
    [] n = 1200 -> "1200"
    [] n = 4200 -> "4200"
    [] OTHER -> "9"

\* str(x) of a scalar
PyStr(v) ==
  CASE v.k = "str" -> v.s
    [] v.k = "bool" -> (IF v.b THEN "True" ELSE "False")
    [] v.k = "num" -> NumText(v.n)
    [] OTHER -> "None"

\* str.lower() on the type words the model uses
Lower(s) ==
  CASE s \in {"String", "STRING"} -> "string"
    [] s = "Number" -> "number"
    [] s = "Boolean" -> "boolean"
    [] s \in {"UUID", "Uuid"} -> "uuid"
    [] s = "Date" -> "date"
    [] s = "Object" -> "object"
    [] s = "Array" -> "array"
    [] s = "TEXT" -> "text"
    [] s = "JSONB" -> "jsonb"
    [] OTHER -> s

(***************************************************************************)
(* DatabaseOperations._convert_schema_to_sql_types                         *)
(***************************************************************************)
type_mapping ==
  [t \in {"String", "string", "Number", "number", "Boolean", "boolean",
          "UUID", "uuid", "Date", "date", "Object", "object", "Array", "array"} |->
     CASE t \in {"String", "string"} -> "TEXT"
       [] t \in {"Number", "number"} -> "NUMERIC"
       [] t \in {"Boolean", "boolean"} -> "BOOLEAN"
       [] t \in {"UUID", "uuid"} -> "JSONB"
       [] t \in {"Date", "date"} -> "TIMESTAMP"
       [] OTHER -> "JSONB"]

\* type_mapping.get(field_type, 'TEXT')
TypeMappingGet(field_type) ==
  IF field_type \in DOMAIN type_mapping THEN type_mapping[field_type] ELSE "TEXT"

\* FindProperties without its `elif 'fields' in schema_data` branch
FindProperties_NoFieldsKey(sd) ==
  IF IsDict(sd)
    THEN IF HasKey(sd, "properties") THEN Lookup(sd, "properties") ELSE sd
    ELSE Null

\* the `properties` the code settles on; None is modelled as Null
FindProperties(sd) ==
  IF IsDict(sd)
    THEN IF HasKey(sd, "properties") THEN Lookup(sd, "properties")
         ELSE IF HasKey(sd, "fields") THEN Lookup(sd, "fields")
         ELSE sd
    ELSE Null

\* field_type before normalisation (a JSON value: 'type' may hold anything)
RawFieldType(field_info) ==
  IF IsDict(field_info)
    THEN IF HasKey(field_info, "type") THEN Lookup(field_info, "type")
         ELSE Str("TEXT")
    ELSE IF IsList(field_info) THEN Str("JSONB")
    ELSE Str(PyStr(field_info))

NormalizedFieldType(field_info) ==
  LET ft == RawFieldType(field_info)
  IN IF IsStr(ft) THEN Lower(ft.s) ELSE "text"

SqlType(field_info) ==
  LET field_type == NormalizedFieldType(field_info)
  IN IF field_type \in {"object", "array"} \/ IsDict(field_info) \/ IsList(field_info)
       THEN "JSONB"
       ELSE TypeMappingGet(field_type)

\* the DEFAULT clause, as the literal the store will read
NoDefault == [lit |-> "none", text |-> ""]
DefaultLiteral(field_info) ==
  IF ~IsDict(field_info) THEN NoDefault
  ELSE LET default_value == DictGet(field_info, "default", Null)
       IN IF IsNone(default_value) THEN NoDefault
          ELSE IF IsStr(default_value)
            THEN [lit |-> "quoted", text |-> default_value.s]
            ELSE [lit |-> "bare", text |-> PyStr(default_value)]

Constraints(field_info) ==
  IF ~IsDict(field_info) THEN <<>>
  ELSE LET d == DefaultLiteral(field_info)
       IN (IF Truthy(DictGet(field_info, "required", Bool(FALSE)))
             THEN <<"NOT NULL">> ELSE <<>>)
          \o (IF Truthy(DictGet(field_info, "unique", Bool(FALSE)))
             THEN <<"UNIQUE">> ELSE <<>>)
          \o (CASE d.lit = "quoted" -> <<"DEFAULT '" \o d.text \o "'">>
                [] d.lit = "bare" -> <<"DEFAULT " \o d.text>>
                [] OTHER -> <<>>)

RECURSIVE JoinSpace(_)
JoinSpace(strs) ==
  IF strs = <<>> THEN ""
  ELSE IF Len(strs) = 1 THEN strs[1]
  ELSE strs[1] \o " " \o JoinSpace(Tail(strs))

\* one entry of sql_columns: the text appended, with the parts the store reads
ColumnSpec(field_name, field_info) ==
  LET quoted == "\"" \o field_name \o "\""
      sql_type == SqlType(field_info)
      constraints == Constraints(field_info)
  IN [name |-> field_name,
      sql_type |-> sql_type,
      constraints |-> constraints,
      default |-> DefaultLiteral(field_info),
      text |-> IF constraints = <<>>
                 THEN quoted \o " " \o sql_type
                 ELSE quoted \o " " \o sql_type \o " " \o JoinSpace(constraints)]

Raised(error) == [status |-> "raised", error |-> error]

_convert_schema_to_sql_types(sd) ==
  LET properties == FindProperties(sd)
  IN IF ~Truthy(properties) THEN Raised("ValueError")
     ELSE IF ~IsDict(properties) THEN Raised("AttributeError")
     ELSE [status |-> "ok",
           columns |-> [i \in DOMAIN properties.items |->
                          ColumnSpec(properties.items[i].key, properties.items[i].val)]]

(***************************************************************************)
(* Schema documents the conversion is checked on.                          *)
(***************************************************************************)
SchemaFieldNames == {"name", "mass_kg", "properties", "fields"}

SchemaFieldInfos ==
  { Obj(<<KV("type", Str("string")), KV("required", Bool(TRUE))>>),
    Obj(<<KV("type", Str("String"))>>),
    Obj(<<KV("type", Str("number"))>>),
    Obj(<<KV("type", Str("Boolean")), KV("default", Bool(FALSE))>>),
    Obj(<<KV("type", Str("date")), KV("unique", Bool(TRUE))>>),
    Obj(<<KV("type", Str("uuid"))>>),
    Obj(<<KV("type", Str("UUID")), KV("default", Str("x"))>>),
    Obj(<<KV("type", Arr(<<Str("String")>>))>>),
    Obj(<<KV("$ref", Str("Other"))>>),
    Arr(<<Str("String")>>),
    Str("uuid"),
    Str("Uuid"),
    Str("string"),
    Str("geo") }

SchemaEntries == {KV(a, b) : a \in SchemaFieldNames, b \in SchemaFieldInfos}

\* a dict holds each key once
DistinctKeys(f) == \A i, j \in DOMAIN f : i # j => f[i].key # f[j].key

ExampleMapping ==
  Obj(<<KV("name", Obj(<<KV("type", Str("string")), KV("required", Bool(TRUE))>>)),
        KV("mass_kg", Obj(<<KV("type", Str("number"))>>)),
        KV("reused", Obj(<<KV("type", Str("boolean")), KV("default", Bool(FALSE))>>))>>)

Forms == {"properties", "fields", "bare"}

Wrap(form, m) == IF form = "bare" THEN m ELSE Obj(<<KV(form, m)>>)

Pending == [status |-> "pending"]

(***************************************************************************)
(* The store: PostgreSQL as the statements of database_operations.py see   *)
(* it.  A table is [name, columns, rows]; a row maps column names to       *)
(* stored values.                                                          *)
(***************************************************************************)
Generated == [k |-> "generated"]   \* a value the store fills in (id, created_at)
Json(v) == [k |-> "json", v |-> v]  \* psycopg2.extras.Json(value)

StoreOk(v) == [ok |-> TRUE, val |-> v]
StoreFail == [ok |-> FALSE, val |-> Null]

IsNumericText(s) == s \in {"0", "1", "1200", "4200", "9"}
TextToNum(s) ==
  CASE s = "0" -> 0 [] s = "1" -> 1 [] s = "1200" -> 1200 [] s = "4200" -> 4200 [] OTHER -> 9
IsBooleanText(s) == s \in {"true", "false", "True", "False"}
IsJsonText(s) == IsNumericText(s) \/ s \in {"true", "false"}

RECURSIVE JsonText(_), JsonItems(_), JsonMembers(_)
\* json.dumps(value), which psycopg2's Json adapter sends as a quoted literal
JsonText(v) ==
  CASE v.k = "str" -> "\"" \o v.s \o "\""
    [] v.k = "num" -> NumText(v.n)
    [] v.k = "bool" -> (IF v.b THEN "true" ELSE "false")
    [] v.k = "arr" -> "[" \o JsonItems(v.items) \o "]"
    [] v.k = "obj" -> "{" \o JsonMembers(v.items) \o "}"
    [] OTHER -> "null"
JsonItems(items) ==
  IF items = <<>> THEN ""
  ELSE IF Len(items) = 1 THEN JsonText(items[1])
  ELSE JsonText(items[1]) \o ", " \o JsonItems(Tail(items))
JsonMembers(items) ==
  IF items = <<>> THEN ""
  ELSE "\"" \o items[1].key \o "\": " \o JsonText(items[1].val)
       \o (IF Len(items) = 1 THEN "" ELSE ", " \o JsonMembers(Tail(items)))

\* the value a literal of the statement takes in a column of type sql_type,
\* or the store's refusal (invalid input syntax / no assignment cast)
Coerce(b, sql_type) ==
  IF b.k = "null" THEN StoreOk(Null)
  ELSE CASE sql_type = "TEXT" ->
              StoreOk(Str(CASE b.k = "str" -> b.s
                            [] b.k = "num" -> NumText(b.n)
                            [] b.k = "bool" -> (IF b.b THEN "true" ELSE "false")
                            [] OTHER -> JsonText(b.v)))
         [] sql_type = "NUMERIC" ->
              IF b.k = "num" THEN StoreOk(b)
              ELSE IF b.k = "str" /\ IsNumericText(b.s) THEN StoreOk(Num(TextToNum(b.s)))
              ELSE StoreFail
         [] sql_type = "BOOLEAN" ->
              IF b.k = "bool" THEN StoreOk(b)
              ELSE IF b.k = "str" /\ IsBooleanText(b.s)
                THEN StoreOk(Bool(b.s \in {"true", "True"}))
              ELSE StoreFail
         [] sql_type = "JSONB" ->
              IF b.k = "json" THEN StoreOk(b.v)
              ELSE IF b.k = "str" /\ IsJsonText(b.s)
                THEN StoreOk(IF IsNumericText(b.s) THEN Num(TextToNum(b.s))
                             ELSE Bool(b.s = "true"))
              ELSE StoreFail
         [] OTHER -> StoreFail   \* TIMESTAMP: no literal of the model is a timestamp

\* the value of a DEFAULT clause's literal
SqlLiteralValue(d) ==
  CASE d.lit = "quoted" -> Str(d.text)
    [] d.lit = "bare" /\ IsBooleanText(d.text) -> Bool(d.text \in {"true", "True"})
    [] d.lit = "bare" /\ IsNumericText(d.text) -> Num(TextToNum(d.text))
    [] OTHER -> Null

IdColumn ==
  [name |-> "id", sql_type |-> "SERIAL", not_null |-> TRUE, unique |-> TRUE,
   default |-> [lit |-> "generated", text |-> "nextval"]]
CreatedAtColumn ==
  [name |-> "created_at", sql_type |-> "TIMESTAMP", not_null |-> FALSE, unique |-> FALSE,
   default |-> [lit |-> "generated", text |-> "CURRENT_TIMESTAMP"]]

\* a column definition of the DDL text, as the store parses it
ParseColumn(spec) ==
  [name |-> spec.name, sql_type |-> spec.sql_type,
   not_null |-> "NOT NULL" \in Range(spec.constraints),
   unique |-> "UNIQUE" \in Range(spec.constraints),
   default |-> spec.default]

TablesNamed(T, table_name) == {t \in T : t.name = table_name}
TableExists(T, table_name) == TablesNamed(T, table_name) # {}
TheTable(T, table_name) == CHOOSE t \in T : t.name = table_name

StmtOk(T) == [ok |-> TRUE, tables |-> T, error |-> ""]
StmtError(T, error) == [ok |-> FALSE, tables |-> T, error |-> error]

\* CREATE TABLE [IF NOT EXISTS] stmt.table (stmt.columns)
ExecCreateTable(T, stmt) ==
  IF TableExists(T, stmt.table)
    THEN IF stmt.if_not_exists THEN StmtOk(T) ELSE StmtError(T, "duplicate_table")
  ELSE IF \E i, j \in DOMAIN stmt.columns : i # j /\ stmt.columns[i].name = stmt.columns[j].name
    THEN StmtError(T, "duplicate_column")
  ELSE IF \E i \in DOMAIN stmt.columns :
            /\ stmt.columns[i].default.lit \in {"quoted", "bare"}
            /\ ~Coerce(SqlLiteralValue(stmt.columns[i].default), stmt.columns[i].sql_type).ok
    THEN StmtError(T, "datatype_mismatch")
  ELSE StmtOk(T \cup {[name |-> stmt.table, columns |-> stmt.columns, rows |-> <<>>]})

\* SELECT column_name ... WHERE table_name = ... AND column_name NOT IN ('id','created_at')
ExecColumnsQuery(T, table_name) ==
  IF ~TableExists(T, table_name) THEN <<>>
  ELSE SelectSeq([i \in DOMAIN TheTable(T, table_name).columns |->
                    TheTable(T, table_name).columns[i].name],
                 LAMBDA n : n \notin {"id", "created_at"})

RowsOk(rows) == [ok |-> TRUE, rows |-> rows, error |-> ""]
RowsError(rows, error) == [ok |-> FALSE, rows |-> rows, error |-> error]

\* INSERT INTO t (stmt.cols) VALUES (stmt.vals)
\*   [ON CONFLICT (stmt.on_conflict) DO UPDATE SET (stmt.cols) = (stmt.set_vals)]
\* run on the transaction's view `rows` of table t
ExecInsert(t, rows, stmt) ==
  LET cols == Range(t.columns)
      listed == Range(stmt.cols)
      pos(n) == CHOOSE i \in DOMAIN stmt.cols : stmt.cols[i] = n
      given(c) == IF c.name \in listed THEN Coerce(stmt.vals[pos(c.name)], c.sql_type)
                  ELSE IF c.default.lit = "generated" THEN StoreOk(Generated)
                  ELSE Coerce(SqlLiteralValue(c.default), c.sql_type)
      newrow == [n \in {c.name : c \in cols} |->
                   given(CHOOSE c \in cols : c.name = n).val]
      key == stmt.on_conflict
      hits == IF key = "" THEN {}
              ELSE {i \in DOMAIN rows : rows[i][key] # Null /\ rows[i][key] = newrow[key]}
      Clash(row, others) ==
        \E c \in cols : /\ c.unique /\ c.name # "id" /\ row[c.name] # Null
                        /\ \E j \in others : rows[j][c.name] = row[c.name]
  IN IF key # "" /\ ~(\E c \in cols : c.name = key /\ c.unique)
       THEN RowsError(rows, "no_unique_constraint_for_on_conflict")
     ELSE IF \E c \in cols : ~given(c).ok
       THEN RowsError(rows, "datatype_mismatch")
     ELSE IF \E c \in cols : c.not_null /\ newrow[c.name] = Null
       THEN RowsError(rows, "not_null_violation")
     ELSE IF hits # {}
       THEN LET i == CHOOSE i \in hits : TRUE
                setTo(c) == Coerce(stmt.set_vals[pos(c.name)], c.sql_type)
                updated == [n \in DOMAIN rows[i] |->
                              IF n \in listed THEN setTo(CHOOSE c \in cols : c.name = n).val
                              ELSE rows[i][n]]
            IN IF \E c \in cols : c.name \in listed /\ ~setTo(c).ok
                 THEN RowsError(rows, "datatype_mismatch")
               ELSE IF \E c \in cols : c.not_null /\ updated[c.name] = Null
                 THEN RowsError(rows, "not_null_violation")
               ELSE IF Clash(updated, DOMAIN rows \ {i})
                 THEN RowsError(rows, "unique_violation")
                 ELSE RowsOk([rows EXCEPT ![i] = updated])
     ELSE IF Clash(newrow, DOMAIN rows)
       THEN RowsError(rows, "unique_violation")
       ELSE RowsOk(Append(rows, newrow))

(***************************************************************************)
(* DatabaseOperations.create_table_if_not_exists                           *)
(***************************************************************************)
\* create_table_sql without IF NOT EXISTS
create_table_sql_Plain(table_name, cols) ==
  [table |-> table_name,
   if_not_exists |-> FALSE,
   columns |-> <<IdColumn>> \o [i \in DOMAIN cols |-> ParseColumn(cols[i])]
               \o <<CreatedAtColumn>>]

create_table_sql(table_name, cols) ==
  [table |-> table_name,
   if_not_exists |-> TRUE,
   columns |-> <<IdColumn>> \o [i \in DOMAIN cols |-> ParseColumn(cols[i])]
               \o <<CreatedAtColumn>>]

\* connections still open once the `with self._get_connection() as conn` block
\* of a call is left: psycopg2's connection context manager commits or rolls
\* back on exit and does not close, so the one opened stays open until the
\* connection object is reclaimed
OpenAfterWith(opened) == opened

CallResult(outcome, error, T, opened, issued, failed_at) ==
  [outcome |-> outcome, error |-> error, tables |-> T, opened |-> opened,
   issued |-> issued, failed_at |-> failed_at]

\* what one call does to the store T when the schema file holds sd
CreateTableResult(T, table_name, sd) ==
  TheOnly({
    IF conv.status = "raised"
      THEN CallResult("raised", conv.error, T, 0, <<>>, 0)
    ELSE IF conv.columns = <<>>
      THEN CallResult("raised", "ValueError", T, 0, <<>>, 0)
    ELSE TheOnly({
           TheOnly({
             CallResult(IF res.ok THEN "ok" ELSE "raised", res.error, res.tables,
                        OpenAfterWith(1), <<stmt>>, 0)
             : res \in {ExecCreateTable(T, stmt)}})
           : stmt \in {create_table_sql(table_name, conv.columns)}})
    : conv \in {_convert_schema_to_sql_types(sd)}})

CallRecord(op, table_name, data, r) ==
  [op |-> op, table |-> table_name, data |-> data, outcome |-> r.outcome,
   error |-> r.error, issued |-> r.issued, failed_at |-> r.failed_at]

NoCall ==
  [op |-> "none", table |-> "", data |-> <<>>, outcome |-> "ok", error |-> "",
   issued |-> <<>>, failed_at |-> 0]

create_table_if_not_exists(table_name, sd) ==
  /\ open_conns < MaxConns
  /\ \E r \in {CreateTableResult(tables, table_name, sd)} :
        /\ tables' = r.tables
        /\ open_conns' = open_conns + r.opened
        /\ last_call' = CallRecord("create_table_if_not_exists", table_name, <<>>, r)
  /\ UNCHANGED <<schemaVars, mainVars>>

(***************************************************************************)
(* DatabaseOperations.insert_or_update                                     *)
(***************************************************************************)
\* Json(value) for dicts and lists, the value itself otherwise
Adapt(value) == IF IsDict(value) \/ IsList(value) THEN Json(value) ELSE value

\* RecordValues reading the record's own values in the record's order
RecordValues_RecordOrder(record, columns_info) ==
  [i \in DOMAIN columns_info |->
     IF i <= Len(record.items) THEN Adapt(record.items[i].val) ELSE Null]

RecordValues(record, columns_info) ==
  [i \in DOMAIN columns_info |-> Adapt(DictGet(record, columns_info[i], Null))]

\* UniqueField with the conflict key hardcoded
UniqueField_Hardcoded(columns_info) == "serial"

\* unique_field; None is modelled as ""
UniqueField(columns_info) ==
  IF "serial" \in Range(columns_info) THEN "serial"
  ELSE IF "name" \in Range(columns_info) THEN "name"
  ELSE ""

\* insert_sql with its parameters: `values * 2` on the upsert, `values` otherwise
InsertStatement(table_name, columns_info, record) ==
  LET values == RecordValues(record, columns_info)
      unique_field == UniqueField(columns_info)
  IN [table |-> table_name, cols |-> columns_info, vals |-> values,
      on_conflict |-> unique_field,
      set_vals |-> IF unique_field # "" THEN values ELSE <<>>]

\* CommittedAfterRecord with conn.commit() inside the loop
CommittedAfterRecord_EachRecord(committed, working) == working

\* what is committed once a record's statement has run: nothing yet, the one
\* conn.commit() comes after the loop
CommittedAfterRecord(committed, working) == committed

\* the loop over the records inside one transaction; `committed` is what a
\* rollback leaves, `working` the transaction's own view
RECURSIVE RunBatch(_, _, _, _, _, _, _)
RunBatch(t, columns_info, data, i, committed, working, issued) ==
  IF i > Len(data)
    THEN [ok |-> TRUE, rows |-> working, error |-> "", failed_at |-> 0, issued |-> issued]
  ELSE TheOnly({
         TheOnly({
           IF ~res.ok
             THEN [ok |-> FALSE, rows |-> committed, error |-> res.error,
                   failed_at |-> i, issued |-> Append(issued, stmt)]
             ELSE TheOnly({
                    RunBatch(t, columns_info, data, i + 1, kept, res.rows, sent)
                    : kept \in {CommittedAfterRecord(committed, res.rows)},
                      sent \in {Append(issued, stmt)}})
           : res \in {ExecInsert(t, working, stmt)}})
         : stmt \in {InsertStatement(t.name, columns_info, data[i])}})

\* `if not isinstance(data, list): data = [data]`
AsList(file) == IF IsList(file) THEN file.items ELSE <<file>>

InsertOrUpdateResult(T, table_name, file) ==
  TheOnly({
    IF columns_info = <<>>
      THEN CallResult("raised", "ValueError", T, OpenAfterWith(1), <<>>, 0)
    ELSE TheOnly({
           TheOnly({
             CallResult(IF run.ok THEN "ok" ELSE "raised", run.error,
                        (T \ {t}) \cup {[t EXCEPT !.rows = run.rows]},
                        OpenAfterWith(1), run.issued, run.failed_at)
             : run \in {RunBatch(t, columns_info, AsList(file), 1, t.rows, t.rows, <<>>)}})
           : t \in {TheTable(T, table_name)}})
    : columns_info \in {ExecColumnsQuery(T, table_name)}})

RowCount(T, table_name) ==
  IF TableExists(T, table_name) THEN Len(TheTable(T, table_name).rows) ELSE 0

insert_or_update(table_name, file) ==
  /\ open_conns < MaxConns
  /\ RowCount(tables, table_name) + Len(AsList(file)) <= MaxRows
  /\ \E r \in {InsertOrUpdateResult(tables, table_name, file)} :
        /\ tables' = r.tables
        /\ open_conns' = open_conns + r.opened
        /\ last_call' = CallRecord("insert_or_update", table_name, AsList(file), r)
  /\ UNCHANGED <<schemaVars, mainVars>>

\* a connection object no frame refers to any more is reclaimed, which closes it
Finalize ==
  /\ open_conns > 0
  /\ open_conns' = open_conns - 1
  /\ UNCHANGED <<tables, last_call, schemaVars, mainVars>>

(***************************************************************************)
(* main.py: fetch_and_process_data and the loop of main                    *)
(***************************************************************************)
datasets ==
  << [table_name |-> "launches", source_url |-> "launches"],
     [table_name |-> "payloads", source_url |-> "payloads"],
     [table_name |-> "capsules", source_url |-> "capsules"] >>

TableNames == [i \in DOMAIN datasets |-> datasets[i].table_name]

\* what a request gives: the body, or the exception requests raises
RequestFailed == [status |-> "raised", error |-> "RequestException"]
Fetched(body) == [status |-> "ok", body |-> body]

\* the markdown of a schema page: its ```json block is missing, does not decode
\* after the quote and trailing-comma clean-up, or decodes to `json`
NoJsonBlock == [json_block |-> "none", json |-> Null]
BadJsonBlock == [json_block |-> "undecodable", json |-> Null]
JsonBlock(doc) == [json_block |-> "ok", json |-> doc]

extract_json_from_markdown(markdown_text) ==
  IF markdown_text.json_block = "none" THEN Raised("ValueError")
  ELSE IF markdown_text.json_block = "undecodable" THEN Raised("JSONDecodeError")
  ELSE [status |-> "ok", json_data |-> markdown_text.json]

\* the body of the try block: the store and the last database call it leaves,
\* and whether an exception left it
ProcessResult(T, table_name, data, schema) ==
  LET none == [raised |-> TRUE, tables |-> T, opened |-> 0, call |-> last_call]
  IN IF data.status = "raised" THEN none
     ELSE IF schema.status = "raised" THEN none
     ELSE TheOnly({
            IF extracted.status = "raised" THEN none
            ELSE TheOnly({
                   IF c.outcome = "raised"
                     THEN [raised |-> TRUE, tables |-> c.tables, opened |-> c.opened,
                           call |-> CallRecord("create_table_if_not_exists",
                                               table_name, <<>>, c)]
                     ELSE TheOnly({
                            [raised |-> l.outcome = "raised", tables |-> l.tables,
                             opened |-> c.opened + l.opened,
                             call |-> CallRecord("insert_or_update", table_name,
                                                 AsList(data.body), l)]
                            : l \in {InsertOrUpdateResult(c.tables, table_name, data.body)}})
                   : c \in {CreateTableResult(T, table_name, extracted.json_data)}})
            : extracted \in {extract_json_from_markdown(schema.body)}})

\* AfterDataset without the try/except: an exception leaves main
AfterDataset_Propagates(raised, more) ==
  IF raised THEN "aborted" ELSE IF more THEN "running" ELSE "done"

\* where main stands once fetch_and_process_data is over: its `except Exception`
\* prints and returns, so the loop goes on whether or not the body raised
AfterDataset(raised, more) == IF more THEN "running" ELSE "done"

fetch_and_process_data(source_url, table_name, data, schema) ==
  \E r \in {ProcessResult(tables, table_name, data, schema)} :
     /\ tables' = r.tables
     /\ open_conns' = open_conns + r.opened
     /\ last_call' = r.call
     /\ attempted' = Append(attempted, table_name)
     /\ errors_logged' = IF r.raised THEN Append(errors_logged, table_name)
                         ELSE errors_logged
     /\ main_pc' = AfterDataset(r.raised, dataset_idx < Len(datasets))

(***************************************************************************)
(* Inputs: records, data files, schema files, and a table made by hand.    *)
(***************************************************************************)
PayloadList == Arr(<<Str("p1"), Str("p2")>>)

Records ==
  { Obj(<<KV("name", Str("Dragon")), KV("mass_kg", Num(1200))>>),
    Obj(<<KV("name", Str("Dragon")), KV("payloads", PayloadList),
          KV("reused", Bool(TRUE))>>),
    Obj(<<KV("name", Str("C101")), KV("mass_kg", Num(4200))>>),
    Obj(<<KV("mass_kg", Num(1200)), KV("payloads", PayloadList)>>) }

DataFiles ==
  {Obj(<<KV("name", Str("Dragon")), KV("mass_kg", Num(1200))>>)}
  \cup {Arr(recs) : recs \in UNION {[1..n -> Records] : n \in 1..MaxBatch}}

KeyedScalarSchema ==
  Obj(<<KV("name", Str("string")), KV("mass_kg", Str("number"))>>)
KeylessScalarSchema ==
  Obj(<<KV("fields", Obj(<<KV("mass_kg", Str("number")), KV("payloads", Str("array")),
                           KV("reused", Str("boolean"))>>))>>)
KeylessDictSchema ==
  Obj(<<KV("properties",
           Obj(<<KV("payloads", Obj(<<KV("type", Str("array")),
                                      KV("required", Bool(TRUE))>>))>>))>>)
KeyedDictSchema ==
  Obj(<<KV("properties",
           Obj(<<KV("name", Obj(<<KV("type", Str("String")), KV("unique", Bool(TRUE))>>)),
                 KV("payloads", Obj(<<KV("type", Str("Array"))>>))>>))>>)
EmptySchema == Obj(<<>>)

SchemaFiles ==
  {ExampleMapping, KeyedScalarSchema, KeylessScalarSchema, KeylessDictSchema,
   KeyedDictSchema, EmptySchema}

\* a table the store holds without this program having made it
HandMadeTable(table_name) ==
  [name |-> table_name,
   columns |-> << IdColumn,
                  [name |-> "name", sql_type |-> "TEXT", not_null |-> TRUE,
                   unique |-> TRUE, default |-> NoDefault],
                  [name |-> "mass_kg", sql_type |-> "NUMERIC", not_null |-> FALSE,
                   unique |-> FALSE, default |-> NoDefault],
                  [name |-> "reused", sql_type |-> "BOOLEAN", not_null |-> FALSE,
                   unique |-> FALSE, default |-> [lit |-> "bare", text |-> "false"]],
                  CreatedAtColumn >>,
   rows |-> <<>>]

StoreTable == "capsules"

(***************************************************************************)
(* Spec: calls of DatabaseOperations on one table, in any order.           *)
(***************************************************************************)
IdleSchema ==
  /\ shape = [form |-> "bare", fields |-> ExampleMapping]
  /\ schema_data = ExampleMapping
  /\ sql_columns = Pending

IdleStore ==
  /\ tables = {}
  /\ open_conns = 0
  /\ last_call = NoCall

IdleMain ==
  /\ dataset_idx = 1
  /\ main_pc = "running"
  /\ attempted = <<>>
  /\ errors_logged = <<>>

Init ==
  /\ tables \in {{}, {HandMadeTable(StoreTable)}}
  /\ open_conns = 0
  /\ last_call = NoCall
  /\ IdleSchema
  /\ IdleMain

Next ==
  \/ \E sd \in SchemaFiles : create_table_if_not_exists(StoreTable, sd)
  \/ \E file \in DataFiles : insert_or_update(StoreTable, file)
  \/ Finalize

Spec == Init /\ [][Next]_vars

(***************************************************************************)
(* SpecSchema: _convert_schema_to_sql_types applied to one document.       *)
(***************************************************************************)
InitSchema ==
  /\ \E form \in Forms :
       \/ shape = [form |-> form, fields |-> ExampleMapping]
       \/ \E n \in 1..MaxFields : \E f \in [1..n -> SchemaEntries] :
            /\ DistinctKeys(f)
            /\ shape = [form |-> form, fields |-> Obj(f)]
  /\ schema_data = Wrap(shape.form, shape.fields)
  /\ sql_columns = Pending
  /\ IdleStore
  /\ IdleMain

Convert ==
  /\ sql_columns = Pending
  /\ sql_columns' = _convert_schema_to_sql_types(schema_data)
  /\ UNCHANGED <<schema_data, shape, storeVars, mainVars>>

NextSchema == Convert

SpecSchema == InitSchema /\ [][NextSchema]_vars

(***************************************************************************)
(* SpecMain: one run of main over the dataset list.                        *)
(***************************************************************************)
FetchedData ==
  { RequestFailed,
    Fetched(Arr(<<Obj(<<KV("name", Str("Dragon")), KV("mass_kg", Num(1200))>>)>>)),
    Fetched(Arr(<<Obj(<<KV("mass_kg", Num(1200)), KV("payloads", PayloadList)>>),
                  Obj(<<KV("name", Str("C101")), KV("mass_kg", Num(4200))>>)>>)) }

FetchedSchemas ==
  { RequestFailed, Fetched(NoJsonBlock), Fetched(BadJsonBlock),
    Fetched(JsonBlock(KeylessScalarSchema)), Fetched(JsonBlock(KeyedScalarSchema)),
    Fetched(JsonBlock(ExampleMapping)) }

InitMain ==
  /\ tables \in {{}, {HandMadeTable("launches")}}
  /\ open_conns = 0
  /\ last_call = NoCall
  /\ IdleSchema
  /\ IdleMain

\* one turn of `for dataset in datasets`
MainStep ==
  /\ main_pc = "running"
  /\ dataset_idx <= Len(datasets)
  /\ \E data \in FetchedData, schema \in FetchedSchemas :
       fetch_and_process_data(datasets[dataset_idx].source_url,
                              datasets[dataset_idx].table_name, data, schema)
  /\ dataset_idx' = dataset_idx + 1
  /\ UNCHANGED schemaVars

FinalizeMain ==
  /\ open_conns > 0
  /\ open_conns' = open_conns - 1
  /\ UNCHANGED <<tables, last_call, schemaVars, mainVars>>

NextMain == MainStep \/ FinalizeMain

SpecMain == InitMain /\ [][NextMain]_vars /\ WF_vars(MainStep)

(***************************************************************************)
(* Properties                                                              *)
(***************************************************************************)
LoadCalled == last_call.op = "insert_or_update"
CreateCalled == last_call.op = "create_table_if_not_exists"
LiveColumns(T) == ExecColumnsQuery(T, StoreTable)
ColumnType(T, n) ==
  (CHOOSE c \in Range(TheTable(T, StoreTable).columns) : c.name = n).sql_type
\* the value a record leaves in live column n when the store accepts it
Written(T, record, n) == Coerce(Adapt(DictGet(record, n, Null)), ColumnType(T, n)).val
RowHolds(T, row, record) ==
  \A n \in Range(LiveColumns(T)) : row[n] = Written(T, record, n)
StoreRows(T) == IF TableExists(T, StoreTable) THEN TheTable(T, StoreTable).rows ELSE <<>>

\* this step is a call of insert_or_update; every data file reaches the call
\* as the list of its records, which last_call' holds
LoadStep ==
  /\ last_call'.op = "insert_or_update"
  /\ insert_or_update(StoreTable, Arr(last_call'.data))

\* C1: on a table whose live columns hold a conflict key, two successive loads
\* of one record each, both carrying the same key value, both succeed and leave
\* exactly one row with that key value, holding the second load's values.
C1_UpsertTwiceLeavesOneRow ==
  [][LET key == UniqueField(LiveColumns(tables))
         second == last_call'.data[1]
     IN ( /\ key # ""
          /\ LoadCalled
          /\ Len(last_call.data) = 1
          /\ LoadStep
          /\ Len(last_call'.data) = 1
          /\ DictGet(second, key, Null) # Null
          /\ DictGet(last_call.data[1], key, Null) = DictGet(second, key, Null) )
        => ( /\ last_call.outcome = "ok"
             /\ last_call'.outcome = "ok"
             /\ Cardinality({i \in DOMAIN StoreRows(tables') :
                               StoreRows(tables')[i][key] = Written(tables, second, key)}) = 1
             /\ \A i \in DOMAIN StoreRows(tables') :
                  StoreRows(tables')[i][key] = Written(tables, second, key)
                    => RowHolds(tables, StoreRows(tables')[i], second) )]_vars

DeclaredType(field_info) ==
  IF IsDict(field_info) /\ HasKey(field_info, "type") /\ IsStr(Lookup(field_info, "type"))
    THEN Lower(Lookup(field_info, "type").s)
  ELSE IF IsStr(field_info) THEN Lower(field_info.s)
  ELSE ""

ExpectedSqlType(declared) ==
  CASE declared = "string" -> "TEXT"
    [] declared = "number" -> "NUMERIC"
    [] declared = "boolean" -> "BOOLEAN"
    [] declared = "date" -> "TIMESTAMP"
    [] OTHER -> ""

\* C2: every field given as a mapping with a declared type string, number,
\* boolean or date (in any letter case) becomes a TEXT, NUMERIC, BOOLEAN or
\* TIMESTAMP column, and the example schema becomes name TEXT NOT NULL,
\* mass_kg NUMERIC, reused BOOLEAN with a default of false, in that order.
C2_DeclaredTypesMapped ==
  sql_columns.status = "ok" =>
    /\ \A i \in DOMAIN sql_columns.columns :
         LET field_info == FindProperties(schema_data).items[i].val
         IN (IsDict(field_info) /\ ExpectedSqlType(DeclaredType(field_info)) # "")
              => sql_columns.columns[i].sql_type = ExpectedSqlType(DeclaredType(field_info))
    /\ schema_data = ExampleMapping =>
         /\ [i \in 1..3 |-> sql_columns.columns[i].name] = <<"name", "mass_kg", "reused">>
         /\ [i \in 1..3 |-> sql_columns.columns[i].sql_type] = <<"TEXT", "NUMERIC", "BOOLEAN">>
         /\ sql_columns.columns[1].text = "\"name\" TEXT NOT NULL"
         /\ sql_columns.columns[2].text = "\"mass_kg\" NUMERIC"
         /\ SqlLiteralValue(sql_columns.columns[3].default) = Bool(FALSE)

\* C3: a field declared uuid, as a mapping's type or as a bare scalar and in any
\* letter case, gets the identifier type, never JSONB and never TEXT.
C3_UuidGetsIdentifierType ==
  sql_columns.status = "ok" =>
    \A i \in DOMAIN sql_columns.columns :
      DeclaredType(FindProperties(schema_data).items[i].val) = "uuid"
        => /\ sql_columns.columns[i].sql_type \notin {"JSONB", "TEXT"}
           /\ sql_columns.columns[i].sql_type = "UUID"

\* C4 as stated: for every non-empty field mapping, whatever its field names,
\* the properties, fields and bare documents convert to the same columns.
C4_AllFormsAgree ==
  sql_columns # Pending =>
    \A form \in Forms :
      sql_columns = _convert_schema_to_sql_types(Wrap(form, shape.fields))

NoReservedFieldName == Keys(shape.fields) \cap {"properties", "fields"} = {}

\* C4: for every non-empty field mapping with no field named properties or
\* fields, the properties, fields and bare documents convert to the same
\* ordered columns.
C4_FormsAgreeWithoutReservedNames ==
  (sql_columns # Pending /\ NoReservedFieldName) =>
    /\ sql_columns.status = "ok"
    /\ \A form \in Forms :
         sql_columns = _convert_schema_to_sql_types(Wrap(form, shape.fields))

C4_Witness ==
  /\ sql_columns.status = "ok"
  /\ shape.form = "bare"
  /\ NoReservedFieldName
  /\ Len(sql_columns.columns) >= 2

\* C5: when the store rejects the write of a record of the batch, the call
\* raises and the tables are exactly what they were before the call.
C5_RejectedLoadChangesNothing ==
  [][(last_call'.op = "insert_or_update" /\ last_call'.failed_at > 0)
       => (last_call'.outcome = "raised" /\ tables' = tables)]_vars

C5_Witness ==
  /\ LoadCalled
  /\ last_call.outcome = "raised"
  /\ last_call.failed_at = 2
  /\ last_call.issued[1].on_conflict = "name"
  /\ StoreRows(tables) = <<>>

\* C6: no connection opened by a call is still open once the call is over.
C6_NoConnectionLeftOpen == open_conns = 0

IsPrefix(s, t) == Len(s) <= Len(t) /\ \A i \in DOMAIN s : s[i] = t[i]

\* C7: whatever fails in a dataset, main goes on: the datasets are attempted in
\* list order and in the end every one of them has been attempted.
C7_EveryDatasetAttempted ==
  /\ [](IsPrefix(attempted, TableNames) /\ main_pc # "aborted")
  /\ <>(main_pc = "done" /\ attempted = TableNames)

C7_Witness ==
  /\ main_pc = "done"
  /\ attempted = TableNames
  /\ errors_logged = <<"launches", "payloads">>

Keyless(T) ==
  /\ "serial" \notin Range(LiveColumns(T))
  /\ "name" \notin Range(LiveColumns(T))

\* C9 as stated: on a table with neither serial nor name, every load of n
\* records adds exactly n rows.
C9_KeylessLoadAddsEveryRecord ==
  [][(TableExists(tables, StoreTable) /\ Keyless(tables) /\ LoadStep)
       => Len(StoreRows(tables')) = Len(StoreRows(tables)) + Len(last_call'.data)]_vars

\* C9: on a table with neither serial nor name every statement issued is a
\* plain insert; a load of n records that returns normally adds exactly n rows
\* (the same record twice adds two), and a load that raises adds none.
C9_KeylessLoadAppends ==
  [][(Keyless(tables) /\ LoadStep)
       => ( /\ \A i \in DOMAIN last_call'.issued :
                 /\ last_call'.issued[i].on_conflict = ""
                 /\ last_call'.issued[i].set_vals = <<>>
            /\ last_call'.outcome = "ok" =>
                 /\ Len(last_call'.issued) = Len(last_call'.data)
                 /\ StoreRows(tables') =
                      StoreRows(tables) \o
                        [i \in DOMAIN last_call'.data |->
                           [n \in DOMAIN StoreRows(tables')[1] |->
                              IF n \in {"id", "created_at"} THEN Generated
                              ELSE Written(tables, last_call'.data[i], n)]]
            /\ last_call'.outcome = "raised" => tables' = tables )]_vars

C9_Witness ==
  /\ LoadCalled
  /\ last_call.outcome = "ok"
  /\ TableExists(tables, StoreTable)
  /\ Keyless(tables)
  /\ Len(last_call.data) = 2
  /\ last_call.data[1] = last_call.data[2]
  /\ Len(StoreRows(tables)) = 2
  /\ StoreRows(tables)[1] = StoreRows(tables)[2]

\* C10: every statement of a load lists exactly the live columns other than id
\* and created_at and binds, for each, the record's value for that key or null
\* when the record has no such key, on the insert and on the conflict update
\* alike; keys of the record that name no live column are bound nowhere; and
\* when the load returns normally the row the last record wrote holds those
\* values, not the columns' defaults.
C10_RecordProjectedOnLiveColumns ==
  LoadCalled =>
    /\ \A i \in DOMAIN last_call.issued :
         LET stmt == last_call.issued[i]
             bound == [j \in DOMAIN stmt.cols |->
                         IF HasKey(last_call.data[i], stmt.cols[j])
                           THEN Adapt(Lookup(last_call.data[i], stmt.cols[j]))
                           ELSE Null]
         IN /\ stmt.cols = LiveColumns(tables)
            /\ stmt.vals = bound
            /\ stmt.on_conflict # "" => stmt.set_vals = bound
    /\ last_call.outcome = "ok" =>
         /\ Len(last_call.issued) = Len(last_call.data)
         /\ \E r \in DOMAIN StoreRows(tables) :
              RowHolds(tables, StoreRows(tables)[r], last_call.data[Len(last_call.data)])

C10_Witness ==
  /\ LoadCalled
  /\ last_call.outcome = "ok"
  /\ Len(last_call.data) = 2
  /\ HasKey(last_call.data[1], "mass_kg")
  /\ ~HasKey(last_call.data[2], "mass_kg")
  /\ HasKey(last_call.data[2], "payloads")
  /\ LiveColumns(tables) = <<"name", "mass_kg", "reused">>
  /\ Len(StoreRows(tables)) = 1
  /\ StoreRows(tables)[1]["mass_kg"] = Null

====
